---- MODULE Spec2Model ----
(***************************************************************************)
(* Model of the two "games to Discord" scripts:                            *)
(*   variant "A"  src/games_to_discord.py             (no screenshots)     *)
(*   variant "B"  src/games_to_discord_screenshot.py  (with screenshots)   *)
(*                                                                         *)
(* JSON values are encoded so that every field has one TLA+ type:          *)
(*   a string field holds the string, or Absent (key missing) or Null;     *)
(*   an id is <<>> (missing or null) or <<n>>;                             *)
(*   a URL is <<>> (None or "") or a non-empty tuple;                      *)
(*   a Python string built by an f-string or a join is the sequence of its *)
(*   pieces (Str below turns None into the text "None", as str() does).    *)
(* A Python exception is the name of its class, "none" when none is raised.*)
(***************************************************************************)
EXTENDS Integers, Sequences, FiniteSets, TLC

VARIABLES variant, pc, file, config, prompts, reported, writes, gets,
          games, lookups, screenshots, payload, posts, sent, exc

vars == <<variant, pc, file, config, prompts, reported, writes, gets,
          games, lookups, screenshots, payload, posts, sent, exc>>

\* ------------------------------------------------------------------ bounds

\* Longest record list handed to the formatters (the cap of variant B is 9).
MaxGames == 11
\* Longest record list a modelled run of main() fetches.
MaxRun == 3

\* ------------------------------------------------------------ JSON values

Absent == "<absent>"
Null == "<null>"

\* dict.get(key, default): the default only when the key is missing; a key
\* holding null yields None.
Get(v, default) == IF v = Absent THEN default ELSE v

\* str(v) as an f-string renders it.
Str(v) == IF v = Null THEN "None" ELSE v

\* One entry of a record's "platforms" list.
\*   kind "obj": a JSON object; platform is "absent", "null", "empty" ({}) or
\*               "obj" (a non-empty object whose "name" is name);
\*   kind "str": a bare platform-name string.
PlatformObj(n) == [kind |-> "obj", platform |-> "obj", name |-> n]
PlatformNone(p) == [kind |-> "obj", platform |-> p, name |-> Absent]
PlatformStr(n) == [kind |-> "str", platform |-> "absent", name |-> n]

\* A record's "platforms" value: missing, null or a list.
NoPlatforms == [kind |-> "absent", items |-> <<>>]
NullPlatforms == [kind |-> "null", items |-> <<>>]
ListPlatforms(items) == [kind |-> "list", items |-> items]

Game(id, name, released, platforms) ==
    [id |-> id, name |-> name, released |-> released, platforms |-> platforms]

\* ------------------------------------------------- the formatters' pieces

\* game.get("platforms") or []
platforms_list(game) ==
    IF game.platforms.kind = "list" THEN game.platforms.items ELSE <<>>

\* if p.get("platform"): a bare string has no .get; null, {} and a missing
\* key are falsy.
Truthy(p) == p.platform = "obj"

RECURSIVE Names(_)
\* [p.get("platform", {}).get("name", "") for p in items if p.get("platform")]
Names(items) ==
    IF items = <<>> THEN <<>>
    ELSE IF Truthy(Head(items))
         THEN <<Get(Head(items).name, "")>> \o Names(Tail(items))
         ELSE Names(Tail(items))

\* Join with the separator forgotten: "".join(names).
JoinNoSeparator(names) == names

RECURSIVE Join(_)
\* ", ".join(names)
Join(names) ==
    IF names = <<>> THEN <<>>
    ELSE IF Len(names) = 1 THEN <<Head(names)>>
    ELSE <<Head(names), ", ">> \o Join(Tail(names))

\* The exception the platforms expression raises, "none" when it returns.
PlatformsExc(game) ==
    LET items == platforms_list(game) IN
    IF \E i \in 1..Len(items) : items[i].kind = "str" THEN "AttributeError"
    ELSE IF \E i \in 1..Len(Names(items)) : Names(items)[i] = Null
         THEN "TypeError"
    ELSE "none"

\* platforms = ", ".join([...])
platforms(game) == Join(Names(platforms_list(game)))

\* The "if platforms" test forgotten: the platforms content always added.
NonEmptyAlways(s) == TRUE

\* bool(s) of a built string: false only for the empty string.
NonEmpty(s) == \E i \in 1..Len(s) : s[i] # ""

\* ---------------------------------------------------------------- payloads

\* What a formatter call yields: a plain-text payload, an embeds payload, or
\* an exception raised while record number `at` was being formatted.
Content(text) ==
    [kind |-> "content", exc |-> "none", at |-> 0, content |-> text,
     embeds |-> <<>>]
Embeds(es) ==
    [kind |-> "embeds", exc |-> "none", at |-> 0, content |-> Absent,
     embeds |-> es]
Raised(e, i) ==
    [kind |-> "raise", exc |-> e, at |-> i, content |-> Absent,
     embeds |-> <<>>]
NoPayload ==
    [kind |-> "unset", exc |-> "none", at |-> 0, content |-> Absent,
     embeds |-> <<>>]

\* Index of the first record of gs whose platforms expression raises, 0 when
\* none does: the for loop stops at the first exception.
FirstRaise(gs) ==
    IF \E i \in 1..Len(gs) : PlatformsExc(gs[i]) # "none"
    THEN CHOOSE i \in 1..Len(gs) :
             /\ PlatformsExc(gs[i]) # "none"
             /\ \A j \in 1..(i - 1) : PlatformsExc(gs[j]) = "none"
    ELSE 0

\* -------------------------------------------------- variant A: formatting

\* The release line with the "TBA" default forgotten: game.get("released").
ReleaseLineNoDefault(game) ==
    <<"Release Date: **",
      IF game.released \in {Absent, Null} THEN "None" ELSE game.released,
      "**\n">>

\* The release-date line of a field (the emoji prefix is left out).
ReleaseLine(game) ==
    <<"Release Date: **", Str(Get(game.released, "TBA")), "**\n">>

\* The platforms phrase of a field: "" when the joined names are empty.
PlatformsPhrase(game) ==
    IF NonEmpty(platforms(game)) THEN <<"Platforms: ">> \o platforms(game)
    ELSE <<>>

\* One game's field: name "**{name}**", value release line + platforms phrase.
field(game) ==
    [name |-> <<"**", Str(Get(game.name, "Unknown Title")), "**">>,
     value |-> ReleaseLine(game) \o PlatformsPhrase(game)]

embed_A(gs) ==
    [title |-> "Upcoming Game Releases",
     description |-> "Here are the upcoming game releases:",
     fields |-> [i \in 1..Len(gs) |-> field(gs[i])],
     footer |-> "Data from RAWG.io - Generated on <now>"]

format_discord_message_A(gs) ==
    IF gs = <<>> THEN Content("No upcoming games found!")
    ELSE IF FirstRaise(gs) # 0
         THEN Raised(PlatformsExc(gs[FirstRaise(gs)]), FirstRaise(gs))
    ELSE Embeds(<<embed_A(gs)>>)

\* -------------------------------------------------- variant B: formatting

\* Discord allows 10 embeds per message: 1 header + 9 games.
GameEmbedCap == 9

\* The slice off by one: games[:10].
CappedTen(gs) ==
    SubSeq(gs, 1, IF Len(gs) < GameEmbedCap + 1 THEN Len(gs)
                  ELSE GameEmbedCap + 1)

\* games[:9]
Capped(gs) ==
    SubSeq(gs, 1, IF Len(gs) < GameEmbedCap THEN Len(gs) ELSE GameEmbedCap)

\* The header embed (it has no fields and no image; its footer is set last).
main_embed ==
    [title |-> "Upcoming Game Releases",
     description |-> "Here are the upcoming game releases with screenshots:",
     fields |-> <<>>,
     image |-> <<>>,
     footer |-> "Data from RAWG.io - Generated on <now>"]

\* game_id in screenshots and screenshots[game_id]
HasShot(game, shots) ==
    /\ game.id # <<>>
    /\ game.id[1] \in DOMAIN shots
    /\ shots[game.id[1]] # <<>>

\* The fields of a game embed: Release Date, then Platforms if non-empty.
game_fields(game) ==
    <<[name |-> "Release Date",
       value |-> <<"**", Str(Get(game.released, "TBA")), "**">>,
       inline |-> TRUE]>>
    \o (IF NonEmpty(platforms(game))
        THEN <<[name |-> "Platforms", value |-> platforms(game),
                inline |-> TRUE]>>
        ELSE <<>>)

game_embed(game, shots) ==
    [title |-> Get(game.name, "Unknown Title"),
     fields |-> game_fields(game),
     image |-> IF HasShot(game, shots) THEN shots[game.id[1]] ELSE <<>>,
     footer |-> IF HasShot(game, shots) THEN Absent
                ELSE "No screenshot available for this game"]

format_discord_message_B(gs, shots) ==
    IF gs = <<>> THEN Content("No upcoming games found!")
    ELSE IF FirstRaise(Capped(gs)) # 0
         THEN Raised(PlatformsExc(gs[FirstRaise(Capped(gs))]),
                     FirstRaise(Capped(gs)))
    ELSE Embeds(<<main_embed>>
                \o [i \in 1..Len(Capped(gs)) |-> game_embed(gs[i], shots)])

\* ------------------------------------------------------ formatter inputs

Titles ==
    <<"G1", "G2", "G3", "G4", "G5", "G6", "G7", "G8", "G9", "G10", "G11",
      "G12">>

\* The i-th well-formed catalog record: its own id and title, one platform.
DefaultGame(i) ==
    Game(<<i>>, Titles[((i - 1) % Len(Titles)) + 1], "2025-03-01",
         ListPlatforms(<<PlatformObj("PC")>>))

PlatformValues ==
    {NoPlatforms, NullPlatforms, ListPlatforms(<<>>),
     ListPlatforms(<<PlatformObj("PC")>>),
     ListPlatforms(<<PlatformObj("PC"), PlatformNone("null"),
                     PlatformObj("PS5")>>),
     ListPlatforms(<<PlatformNone("empty")>>),
     ListPlatforms(<<PlatformObj(Absent)>>),
     ListPlatforms(<<PlatformObj(Null)>>),
     ListPlatforms(<<PlatformStr("PC")>>)}

\* The shapes the record at one position takes.
RecDomain(i) ==
    {Game(id, n, r, p) :
        id \in {<<>>, <<i>>}, n \in {Absent, Null, "Foo"},
        r \in {Absent, Null, "2025-03-01", "TBA"}, p \in PlatformValues}

\* A list of n records, all default but the one at position k.
ListWith(n, k, rec) == [i \in 1..n |-> IF i = k THEN rec ELSE DefaultGame(i)]

Positions(n) == {1, n, GameEmbedCap, GameEmbedCap + 1} \cap (1..n)

\* The end-to-end scenario of the specification, with the platforms of "Foo"
\* as bare names (the data model's shape) and as the catalog API sends them.
ScenarioBare ==
    <<Game(<<1>>, "Foo", "2025-03-01", ListPlatforms(<<PlatformStr("PC")>>)),
      Game(<<2>>, "Bar", "TBA", NullPlatforms)>>
ScenarioApi ==
    <<Game(<<1>>, "Foo", "2025-03-01", ListPlatforms(<<PlatformObj("PC")>>)),
      Game(<<2>>, "Bar", "TBA", NullPlatforms)>>

InputLists ==
    {<<>>, ScenarioBare, ScenarioApi}
    \cup UNION {UNION {{ListWith(n, k, rec) : rec \in RecDomain(k)} :
                         k \in Positions(n)} : n \in 1..MaxGames}

Url(id) == <<"https://img", id>>

\* Screenshot mappings handed to the variant B formatter: none, one for every
\* id, one for the odd ids, and every id mapped to an empty URL.
InputShots ==
    {[i \in {} |-> <<>>],
     [i \in 1..MaxGames |-> Url(i)],
     [i \in {j \in 1..MaxGames : j % 2 = 1} |-> Url(i)],
     [i \in 1..MaxGames |-> <<>>]}

\* ------------------------------------- specification of the formatters

\* A parsed configuration: a JSON object (a missing key is Absent) or a JSON
\* value that is no object; "none" before load_config returns.
Config(shape, key, url) ==
    [shape |-> shape, rawg_api_key |-> key, discord_webhook_url |-> url]
NoConfig == Config("none", Absent, Absent)

\* The config file as the run finds it: absent, text that is no JSON, bytes
\* that are no text, JSON nested deeper than the parser's recursion limit, or
\* a JSON value.
File(kind, value) == [kind |-> kind, value |-> value]

FormatInit ==
    /\ variant \in {"A", "B"}
    /\ pc = "format"
    /\ games \in InputLists
    /\ screenshots \in InputShots
    /\ payload = NoPayload
    /\ file = File("absent", NoConfig)
    /\ config = NoConfig
    /\ prompts = <<>>
    /\ reported = FALSE
    /\ writes = <<>>
    /\ gets = 0
    /\ lookups = <<>>
    /\ posts = <<>>
    /\ sent = "unset"
    /\ exc = "none"

\* discord_payload = format_discord_message(games)
FormatA ==
    /\ pc = "format"
    /\ variant = "A"
    /\ payload' = format_discord_message_A(games)
    /\ exc' = payload'.exc
    /\ pc' = IF payload'.kind = "raise" THEN "raised" ELSE "send"
    /\ UNCHANGED <<variant, file, config, prompts, reported, writes, gets,
                   games, lookups, screenshots, posts, sent>>

\* discord_payload = format_discord_message(games, screenshots)
FormatB ==
    /\ pc = "format"
    /\ variant = "B"
    /\ payload' = format_discord_message_B(games, screenshots)
    /\ exc' = payload'.exc
    /\ pc' = IF payload'.kind = "raise" THEN "raised" ELSE "send"
    /\ UNCHANGED <<variant, file, config, prompts, reported, writes, gets,
                   games, lookups, screenshots, posts, sent>>

FormatNext == FormatA \/ FormatB

FormatSpec == FormatInit /\ [][FormatNext]_vars

\* ----------------------------------------- properties of the formatters

\* A formatter call has returned or raised.
Formatted == payload.kind # "unset"

Min(a, b) == IF a < b THEN a ELSE b

\* The records the variant's loop reads: all of them in A, games[:9] in B.
Processed == IF variant = "A" THEN Len(games) ELSE Min(Len(games), 9)

\* A platforms value as the catalog API sends it: missing, null, or a list of
\* objects whose "platform" is missing, null, {} or an object with a missing
\* or string "name".
ApiShaped(g) ==
    \A k \in 1..Len(g.platforms.items) :
        /\ g.platforms.items[k].kind = "obj"
        /\ g.platforms.items[k].name # Null

\* A platforms value of the data model's shape: a non-empty list of bare
\* platform-name strings.
BareShaped(g) ==
    /\ g.platforms.kind = "list"
    /\ g.platforms.items # <<>>
    /\ \A k \in 1..Len(g.platforms.items) : g.platforms.items[k].kind = "str"

\* Missing, null or empty platforms.
EmptyPlatforms(g) == g.platforms.kind # "list" \/ g.platforms.items = <<>>

\* The names of the entries that carry a platform object, in order.
ObjNames(items) ==
    LET sel == SelectSeq(items, LAMBDA p : p.platform = "obj")
    IN [k \in 1..Len(sel) |-> IF sel[k].name = Absent THEN "" ELSE sel[k].name]

\* n1, ", ", n2, ", ", ... nk
CommaJoined(ns) ==
    [k \in 1..(IF ns = <<>> THEN 0 ELSE 2 * Len(ns) - 1) |->
        IF k % 2 = 1 THEN ns[(k + 1) \div 2] ELSE ", "]

\* The title and the release date variant A or B shows for record i.
ShownTitle(i) ==
    IF variant = "A" THEN payload.embeds[1].fields[i].name[2]
    ELSE payload.embeds[i + 1].title
ShownRelease(i) ==
    IF variant = "A" THEN payload.embeds[1].fields[i].value[2]
    ELSE payload.embeds[i + 1].fields[1].value[2]

\* C4: variant B emits 1 header embed then one embed per record in input
\* order, at most 9 of them: 1 + N embeds for 1 <= N <= 9, exactly 10 for
\* N >= 10, never more than 10; records beyond the 9th are not even read.
C4_TenEmbedCap ==
    (Formatted /\ variant = "B" /\ games # <<>>) =>
        /\ Len(payload.embeds) <= 10
        /\ (\A i \in 1..Min(Len(games), 9) : ApiShaped(games[i]))
               => payload.kind = "embeds"
        /\ payload.kind = "raise" => payload.at <= 9
        /\ payload.kind = "embeds" =>
               /\ Len(payload.embeds) = 1 + Min(Len(games), 9)
               /\ payload.embeds[1] = main_embed
               /\ \A i \in 1..Min(Len(games), 9) :
                      /\ games[i].name \notin {Absent, Null}
                             => payload.embeds[i + 1].title = games[i].name
                      /\ payload.embeds[i + 1].fields[1].name = "Release Date"

C4_Witness ==
    /\ Formatted /\ variant = "B"
    /\ Len(games) = 11
    /\ games[10].name = "Foo"
    /\ payload.kind = "embeds"
    /\ Len(payload.embeds) = 10
    /\ payload.embeds[10].title = "G9"

\* C5 as stated: for any list of N records of the catalog's shape variant A
\* emits exactly 1 embed with N fields, the i-th from the i-th record, the
\* release date "TBA" when the record has no "released" key.
C5_OneEmbedNFields_Original ==
    (Formatted /\ variant = "A"
       /\ \A i \in 1..Len(games) : ApiShaped(games[i])) =>
        /\ payload.kind = "embeds"
        /\ Len(payload.embeds) = 1
        /\ Len(payload.embeds[1].fields) = Len(games)
        /\ \A i \in 1..Len(games) :
               /\ games[i].name \notin {Absent, Null}
                      => ShownTitle(i) = games[i].name
               /\ games[i].released \notin {Absent, Null}
                      => ShownRelease(i) = games[i].released
               /\ games[i].released = Absent => ShownRelease(i) = "TBA"

\* C5 amended: the same for N >= 1; for N = 0 the output is the plain-text
\* fallback and holds no embed.
C5_OneEmbedNFields ==
    /\ games # <<>> => C5_OneEmbedNFields_Original
    /\ (Formatted /\ variant = "A" /\ games = <<>>)
           => payload = Content("No upcoming games found!")

C5_Witness ==
    /\ Formatted /\ variant = "A"
    /\ Len(games) = 3
    /\ games[3].released = Absent
    /\ games[3].name = "Foo"
    /\ payload.kind = "embeds"
    /\ Len(payload.embeds[1].fields) = 3
    /\ ShownRelease(3) = "TBA"

\* What the end-to-end scenario is to produce: two fields, Foo with its date
\* and platform PC, Bar with TBA and no platform line.
ScenarioFields ==
    <<[name |-> <<"**", "Foo", "**">>,
       value |-> <<"Release Date: **", "2025-03-01", "**\n",
                   "Platforms: ", "PC">>],
      [name |-> <<"**", "Bar", "**">>,
       value |-> <<"Release Date: **", "TBA", "**\n">>]>>

\* C6 as stated: records whose platforms are lists of bare platform-name
\* strings are formatted by variant A without raising, and the scenario with
\* platforms ["PC"] gives the two expected fields.
C6_BareNames_Original ==
    (Formatted /\ variant = "A"
       /\ \A i \in 1..Len(games) :
              BareShaped(games[i]) \/ EmptyPlatforms(games[i])) =>
        /\ payload.kind # "raise"
        /\ games = ScenarioBare => payload.embeds[1].fields = ScenarioFields

\* C6 amended: records whose platforms are lists of objects
\* {platform: {name: <string>}} (entries without a platform object skipped)
\* are formatted by variant A without raising, the field showing the
\* comma-joined names; the scenario with platforms [{platform: {name: "PC"}}]
\* gives the two expected fields.  A list of bare strings raises.
C6_ApiNames ==
    (Formatted /\ variant = "A") =>
        /\ (games # <<>> /\ \A i \in 1..Len(games) : ApiShaped(games[i])) =>
               /\ payload.kind = "embeds"
               /\ \A i \in 1..Len(games) :
                      LET ns == ObjNames(games[i].platforms.items)
                          v == payload.embeds[1].fields[i].value
                      IN NonEmpty(ns) =>
                             SubSeq(v, 4, Len(v))
                                 = <<"Platforms: ">> \o CommaJoined(ns)
        /\ games = ScenarioApi => payload.embeds[1].fields = ScenarioFields
        /\ (\E i \in 1..Len(games) : BareShaped(games[i]))
               => payload.kind = "raise"

C6_Witness ==
    /\ Formatted /\ variant = "A"
    /\ games = ScenarioApi
    /\ payload.kind = "embeds"
    /\ payload.embeds[1].fields[1].value[5] = "PC"

\* C7: a record whose name is missing or null is shown as "Unknown Title",
\* and one whose released value is missing or null with the date "TBA".
C7_Defaults ==
    (Formatted /\ payload.kind = "embeds") =>
        \A i \in 1..Processed :
            /\ games[i].name \in {Absent, Null}
                   => ShownTitle(i) = "Unknown Title"
            /\ games[i].released \in {Absent, Null}
                   => ShownRelease(i) = "TBA"

\* C8: a record whose platforms are null, missing or an empty list is never
\* the record at which formatting raises, and its output carries no
\* platforms content: in A the field value is the release line alone, in B
\* the embed has the Release Date field alone.
C8_EmptyPlatformsOmitted ==
    Formatted =>
        \A i \in 1..Processed :
            EmptyPlatforms(games[i]) =>
                /\ payload.kind = "raise" => payload.at # i
                /\ (payload.kind = "embeds" /\ variant = "A") =>
                       /\ Len(payload.embeds[1].fields[i].value) = 3
                       /\ \A k \in 1..3 :
                              payload.embeds[1].fields[i].value[k]
                                  # "Platforms: "
                /\ (payload.kind = "embeds" /\ variant = "B") =>
                       /\ Len(payload.embeds[i + 1].fields) = 1
                       /\ payload.embeds[i + 1].fields[1].name
                              = "Release Date"

C8_Witness ==
    /\ Formatted /\ variant = "B"
    /\ Len(games) = 2
    /\ games[1].platforms = NullPlatforms
    /\ payload.kind = "embeds"
    /\ Len(payload.embeds[2].fields) = 1

\* ------------------------------------------------------ inputs of a run

FileContents ==
    {File(k, NoConfig) : k \in {"absent", "invalid_json", "undecodable",
                                "too_deep"}}
    \cup {File("value", Config("array", Absent, Absent))}
    \cup {File("value", Config("object", k, u)) :
            k \in {Absent, "", "key"}, u \in {Absent, "", "https://hook"}}

\* What the operator types at a prompt.
KeyInputs == {"", "key"}
UrlInputs == {"", "https://hook"}

\* The shapes the record at one position of a fetched list takes: its id is
\* missing, 0, its own or that of the first record; its platforms are well
\* formed, null or a list of bare strings.
RunRecDomain(i) ==
    {Game(id, "Foo", "2025-03-01", p) :
        id \in {<<>>, <<0>>, <<i>>, <<1>>},
        p \in {ListPlatforms(<<PlatformObj("PC")>>), NullPlatforms,
               ListPlatforms(<<PlatformStr("PC")>>)}}

RunLists ==
    {<<>>}
    \cup UNION {UNION {{ListWith(n, k, rec) : rec \in RunRecDomain(k)} :
                         k \in 1..n} : n \in 1..MaxRun}

\* Outcomes of the catalog GET: no response, an error status, a body that is
\* no JSON, a JSON body that is no object, an object without "results", or an
\* object with a "results" list.
FetchOutcomes ==
    {[kind |-> k, results |-> <<>>] :
        k \in {"transport", "http_error", "not_json", "json_array",
               "no_results"}}
    \cup {[kind |-> "results", results |-> gs] : gs \in RunLists}

\* Outcomes of one screenshot GET: a first result with an image URL, no
\* usable image (empty results, or a first result without one), a caught
\* request failure, or a JSON body that is no object.
LookupOutcomes == {"url", "none", "request_error", "json_array"}

\* Outcomes of the POST: no response, or a response with a status.
PostOutcomes ==
    {[err |-> TRUE, status |-> 0]}
    \cup {[err |-> FALSE, status |-> st] : st \in {204, 304, 404, 503}}

\* -------------------------------------------------------------- load_config

\* json.load(f) inside try/except json.JSONDecodeError: the exception that
\* escapes load_config, "none" when it returns or falls through.
LoadExc(f) ==
    IF f.kind = "undecodable" THEN "UnicodeDecodeError"
    ELSE IF f.kind = "too_deep" THEN "RecursionError"
    ELSE "none"

\* Whether load_config reaches the prompts: no file, or a JSONDecodeError.
FallsThrough(f) == f.kind \in {"absent", "invalid_json"}

\* config = load_config()
LoadConfig ==
    /\ pc = "load"
    /\ \/ /\ file.kind = "value"
          /\ config' = file.value
          /\ pc' = "check"
          /\ UNCHANGED <<prompts, reported, writes, exc>>
       \/ /\ LoadExc(file) # "none"
          /\ exc' = LoadExc(file)
          /\ pc' = "raised"
          /\ UNCHANGED <<config, prompts, reported, writes>>
       \/ /\ FallsThrough(file)
          /\ reported' = (file.kind = "invalid_json")
          /\ \E k \in KeyInputs, u \in UrlInputs :
                /\ prompts' = <<k, u>>
                /\ config' = Config("object", k, u)
                /\ writes' = Append(writes, Config("object", k, u))
          /\ pc' = "check"
          /\ UNCHANGED exc
    /\ UNCHANGED <<variant, file, gets, games, lookups, screenshots, payload,
                   posts, sent>>

\* --------------------------------------------------------------------- main

\* The exception of: not config["rawg_api_key"] or not
\* config["discord_webhook_url"] ("or" does not read the second key when the
\* first value is empty).
CheckExc(c) ==
    IF c.shape # "object" THEN "TypeError"
    ELSE IF c.rawg_api_key = Absent THEN "KeyError"
    ELSE IF c.rawg_api_key # "" /\ c.discord_webhook_url = Absent
         THEN "KeyError"
    ELSE "none"

\* Its value when it raises nothing.
Missing(c) == c.rawg_api_key = "" \/ c.discord_webhook_url = ""

\* if not config[...] or not config[...]: print; return
CheckConfig ==
    /\ pc = "check"
    /\ exc' = CheckExc(config)
    /\ pc' = IF CheckExc(config) # "none" THEN "raised"
             ELSE IF Missing(config) THEN "done"
             ELSE "fetch"
    /\ UNCHANGED <<variant, file, config, prompts, reported, writes, gets,
                   games, lookups, screenshots, payload, posts, sent>>

\* fetch_upcoming_games: the list it returns; RequestException (a failed
\* request, an error status, a body that is no JSON) is caught.
fetch_upcoming_games(out) ==
    IF out.kind = "results" THEN out.results ELSE <<>>

\* The exception that escapes it: data.get on a body that is no object.
FetchExc(out) == IF out.kind = "json_array" THEN "AttributeError" ELSE "none"

\* games = fetch_upcoming_games(...); if not games: print; return
Fetch ==
    /\ pc = "fetch"
    /\ gets' = gets + 1
    /\ \E out \in FetchOutcomes :
          /\ exc' = FetchExc(out)
          /\ games' = IF FetchExc(out) # "none" THEN games
                      ELSE fetch_upcoming_games(out)
          /\ pc' = IF FetchExc(out) # "none" THEN "raised"
                   ELSE IF fetch_upcoming_games(out) = <<>> THEN "done"
                   ELSE IF variant = "A" THEN "format"
                   ELSE "shots"
    /\ UNCHANGED <<variant, file, config, prompts, reported, writes, lookups,
                   screenshots, payload, posts, sent>>

\* if game_id: ids that are missing, null or 0 are not looked up.
LookedUp(game) == game.id # <<>> /\ game.id[1] # 0

\* fetch_game_screenshot: the URL it returns, <<>> for None.
fetch_game_screenshot(id, out) == IF out = "url" THEN Url(id) ELSE <<>>

\* screenshots[game_id] = screenshot_url
Store(shots, id, url) ==
    [i \in DOMAIN shots \cup {id} |-> IF i = id THEN url ELSE shots[i]]

\* One pass of "for game in games" in main (variant B): the record after the
\* ones already visited.
Lookup ==
    /\ pc = "shots"
    /\ LET idx == Len(lookups) + 1
           game == games[idx]
       IN \E out \in (IF LookedUp(game) THEN LookupOutcomes ELSE {"skipped"}) :
             /\ lookups' = Append(lookups,
                                  [idx |-> idx, id |-> game.id, out |-> out])
             /\ screenshots' =
                    IF out = "url"
                    THEN Store(screenshots, game.id[1],
                               fetch_game_screenshot(game.id[1], out))
                    ELSE screenshots
             /\ exc' = IF out = "json_array" THEN "AttributeError" ELSE "none"
             /\ pc' = IF out = "json_array" THEN "raised"
                      ELSE IF idx = Len(games) THEN "format"
                      ELSE "shots"
    /\ UNCHANGED <<variant, file, config, prompts, reported, writes, gets,
                   games, payload, posts, sent>>

\* response.raise_for_status(): HTTPError for 400 <= status < 600 only.
RaisesForStatus(st) == 400 <= st /\ st < 600

\* send_to_discord: one requests.post; False when RequestException is caught.
send_to_discord(out) == ~out.err /\ ~RaisesForStatus(out.status)

\* if send_to_discord(config["discord_webhook_url"], discord_payload): ...
Send ==
    /\ pc = "send"
    /\ \E out \in PostOutcomes :
          /\ posts' = Append(posts, [payload |-> payload, err |-> out.err,
                                     status |-> out.status])
          /\ sent' = IF send_to_discord(out) THEN "true" ELSE "false"
    /\ pc' = "done"
    /\ UNCHANGED <<variant, file, config, prompts, reported, writes, gets,
                   games, lookups, screenshots, payload, exc>>

Init ==
    /\ variant \in {"A", "B"}
    /\ pc = "load"
    /\ file \in FileContents
    /\ config = NoConfig
    /\ prompts = <<>>
    /\ reported = FALSE
    /\ writes = <<>>
    /\ gets = 0
    /\ games = <<>>
    /\ lookups = <<>>
    /\ screenshots = [i \in {} |-> <<>>]
    /\ payload = NoPayload
    /\ posts = <<>>
    /\ sent = "unset"
    /\ exc = "none"

Next ==
    \/ LoadConfig
    \/ CheckConfig
    \/ Fetch
    \/ Lookup
    \/ FormatA
    \/ FormatB
    \/ Send

Spec == Init /\ [][Next]_vars

\* ------------------------------------------------------ properties of a run

\* main() has returned or an exception has left it.
Ended == pc \in {"done", "raised"}

\* load_config returned a configuration whose two credentials are non-empty.
CredentialsOk ==
    /\ config.shape = "object"
    /\ config.rawg_api_key \notin {Absent, ""}
    /\ config.discord_webhook_url \notin {Absent, ""}

\* C1: the stages run in the order load, fetch, format, publish; with an
\* empty credential there is no fetch and no POST; with an empty fetch result
\* there is no formatting and no POST; otherwise exactly one publish attempt
\* is made; so at most one POST per run, and only of an embeds payload built
\* from a non-empty record list.
C1_StagesInOrder ==
    /\ gets <= 1
    /\ Len(posts) <= 1
    /\ gets = 1 => CredentialsOk
    /\ Formatted => (gets = 1 /\ games # <<>>)
    /\ posts # <<>> =>
           /\ Formatted
           /\ posts[1].payload = payload
           /\ payload.kind = "embeds"
    /\ (Ended /\ CredentialsOk /\ games # <<>>) => Len(posts) = 1

\* C2: no exception leaves main(), whatever the config file holds, whatever
\* the operator types and however the HTTP calls end.
C2_NoExceptionEscapes == pc # "raised" /\ exc = "none"

\* The config file exists and its content is not the expected JSON.
Malformed == file.kind \in {"invalid_json", "undecodable", "too_deep"}

\* C3: for every malformed config file load_config does not raise, reports
\* the corruption, prompts, writes the prompted values and returns them; a
\* file that parses is returned with no prompt and no write.
C3_MalformedFallsBack ==
    pc # "load" =>
        /\ Malformed =>
               /\ config # NoConfig
               /\ reported
               /\ Len(prompts) = 2
               /\ config = Config("object", prompts[1], prompts[2])
               /\ writes = <<config>>
        /\ file.kind = "value" =>
               /\ config = file.value
               /\ prompts = <<>>
               /\ writes = <<>>
               /\ ~reported

\* C9: send_to_discord makes exactly one POST and returns; it returns False
\* when the POST fails at transport level or is answered with a status
\* outside 200..299, and True only for a status inside.
C9_PublishOnce ==
    sent # "unset" =>
        /\ Len(posts) = 1
        /\ (posts[1].err \/ posts[1].status \notin 200..299) => sent = "false"
        /\ sent = "true" => (~posts[1].err /\ posts[1].status \in 200..299)

\* A screenshot lookup that yielded no URL.
FailedLookup(l) == l.out \in {"none", "request_error", "json_array"}

\* Some lookup for the id of record i returned a URL.
GotUrl(i) ==
    \E j \in 1..Len(lookups) :
        lookups[j].id = games[i].id /\ lookups[j].out = "url"

\* C10: in variant B the lookups are made one record at a time, in record
\* order, all before formatting; a failed lookup never ends the run, and the
\* publish is still attempted; every published record embed carries the
\* image exactly when a lookup for its record's id returned a URL, and the
\* "No screenshot available" footer otherwise.
C10_LookupsDegrade ==
    variant = "B" =>
        /\ \A j \in 1..Len(lookups) : lookups[j].idx = j
        /\ Formatted => Len(lookups) = Len(games)
        /\ \A j \in 1..Len(lookups) :
               FailedLookup(lookups[j]) =>
                   /\ ~(pc = "raised" /\ ~Formatted)
                   /\ pc = "done" => Len(posts) = 1
        /\ posts # <<>> =>
               \A i \in 1..Min(Len(games), 9) :
                   LET e == posts[1].payload.embeds[i + 1] IN
                   /\ e.image # <<>> <=> GotUrl(i)
                   /\ e.image = <<>> <=>
                          e.footer = "No screenshot available for this game"
                   /\ e.image # <<>> <=> e.footer = Absent

====
